---------------------------- MODULE Spec2Model ----------------------------
(***************************************************************************)
(* A model of the MMR REST-API client of src/example.py: the function      *)
(* is_valid_url and the class MmrApiClient with its methods info and       *)
(* recognition.                                                            *)
(*                                                                         *)
(* Representation.                                                         *)
(*  - A Python str that the code inspects character by character (the      *)
(*    image path, the server address, a request URL) is a sequence of      *)
(*    one-character strings: "a://a" is <<"a", ":", "/", "/", "a">>.       *)
(*  - A Python value that travels through json or an f-string is a tagged  *)
(*    record [t |-> tag, v |-> payload] (PyStr, PyInt, PyBool, PyNone,     *)
(*    PyList, PyDict).                                                     *)
(*  - A JSON text is the sequence of its lexical tokens, white space       *)
(*    included.  A bytes value is a sequence of pieces: one raw byte, or   *)
(*    the encoding of one lexeme in UTF-8 or in UTF-16.                    *)
(*  - The libraries the code calls (requests, os, the server behind them)  *)
(*    are the environment: their answers are inputs of the actions.        *)
(***************************************************************************)
EXTENDS Integers, Sequences, FiniteSets, TLC

VARIABLES
    server_url,     \* self.server_url of the one MmrApiClient instance
    default_tasks,  \* the list object bound to the default of `tasks`
    last,           \* what the last completed call did: its arguments, the
                    \* answers of the environment, its requests and its outcome
    prev            \* the call completed before the last one: which operation,
                    \* and for an info call followed by an info call its key,
                    \* the answer of the server and its outcome

vars == <<server_url, default_tasks, last, prev>>

(***************************************************************************)
(* Sequence helpers.                                                       *)
(***************************************************************************)
Range(s) == { s[i] : i \in 1..Len(s) }

\* s[from..] in Python's 0-based slicing, as a sequence.
Drop(s, n) == SubSeq(s, n + 1, Len(s))

\* s[:n] in Python's slicing.
Take(s, n) == SubSeq(s, 1, IF n < Len(s) THEN n ELSE Len(s))

\* str.find(c): the 0-based index of the first c in s, -1 when absent.
Find(s, c) ==
    IF \E i \in 1..Len(s) : s[i] = c
    THEN (CHOOSE i \in 1..Len(s) : s[i] = c /\ \A j \in 1..(i - 1) : s[j] # c) - 1
    ELSE -1

(***************************************************************************)
(* Python values, as far as json and f-strings handle them.                *)
(***************************************************************************)
PyNone     == [t |-> "None", v |-> <<>>]
PyBool(b)  == [t |-> "bool", v |-> b]
PyInt(i)   == [t |-> "int",  v |-> i]
PyStr(s)   == [t |-> "str",  v |-> s]
\* repr() of a str of characters, inside an f-string.
PyRepr(s)  == [t |-> "repr", v |-> s]
PyList(s)  == [t |-> "list", v |-> s]
\* A dict is the sequence of its <<key, value>> items in insertion order.
PyDict(kv) == [t |-> "dict", v |-> kv]

DictKeys(d) == { d.v[i][1] : i \in 1..Len(d.v) }

\* d[k], for a key that d holds.
DictGet(d, k) == d.v[CHOOSE i \in 1..Len(d.v) : d.v[i][1] = k][2]

\* d[k] = x: an existing key keeps its place and takes the new value.
DictSet(kv, k, x) ==
    IF \E i \in 1..Len(kv) : kv[i][1] = k
    THEN [i \in 1..Len(kv) |-> IF kv[i][1] = k THEN <<k, x>> ELSE kv[i]]
    ELSE Append(kv, <<k, x>>)

(***************************************************************************)
(* Characters.  The image paths of the model are written over this         *)
(* alphabet; RC stands for U+FFFD, the replacement character that          *)
(* bytes.decode(errors='replace') produces.                                *)
(***************************************************************************)
RC == "U+FFFD"

HexDigits == {"3", "a", "A"}

HexVal(c) == CASE c = "3" -> 3
               [] c = "a" -> 10
               [] c = "A" -> 10

\* chr() of the ASCII code points that two hex digits of HexDigits can spell.
Chr(n) == CASE n = 51 -> "3"
            [] n = 58 -> ":"
            [] OTHER  -> RC

\* One %xx escape decoded as UTF-8 with errors='replace': an ASCII byte is its
\* character; a byte of 0x80..0xBF standing alone is not valid UTF-8.
DecodeByte(h1, h2) ==
    LET b == 16 * HexVal(h1) + HexVal(h2)
    IN  IF b < 128 THEN Chr(b) ELSE RC

RECURSIVE unquote(_)
\* urllib.parse.unquote: every %xx with two hex digits becomes its character,
\* every other '%' stays.
unquote(s) ==
    IF s = <<>> THEN <<>>
    ELSE IF s[1] = "%" /\ Len(s) >= 3 /\ s[2] \in HexDigits /\ s[3] \in HexDigits
         THEN <<DecodeByte(s[2], s[3])>> \o unquote(Drop(s, 3))
         ELSE <<s[1]>> \o unquote(Drop(s, 1))

IsAsciiAlpha(c) == c \in {"a", "A"}

scheme_chars == {"a", "A", "3"}

Lower(c) == IF c = "A" THEN "a" ELSE c

LowerStr(s) == [i \in 1..Len(s) |-> Lower(s[i])]

\* urllib.parse._splitnetloc(url, 2): the domain ends at the first of "/?#".
SplitNetloc(url) ==
    LET rest  == Drop(url, 2)
        stops == { i \in 1..Len(rest) : rest[i] \in {"/", "?", "#"} }
        delim == IF stops = {} THEN Len(rest) + 1
                 ELSE CHOOSE i \in stops : \A j \in stops : i <= j
    IN  [netloc |-> SubSeq(rest, 1, delim - 1), url |-> Drop(rest, delim - 1)]

\* str.split(c): the pieces of s between the occurrences of c.
RECURSIVE Split(_, _)
Split(s, c) ==
    IF Find(s, c) < 0 THEN <<s>>
    ELSE <<Take(s, Find(s, c))>> \o Split(Drop(s, Find(s, c) + 1), c)

\* ipaddress._BaseV6._parse_hextet does not raise: one to four hex digits.
parse_hextet(hextet_str) ==
    /\ Range(hextet_str) \subseteq HexDigits
    /\ Len(hextet_str) <= 4
    /\ hextet_str # <<>>

\* The hextets around a '::' parse: parts_hi parts from the front, parts_lo
\* from the back, and at least one part skipped between them.
hextets_around(parts, parts_hi, parts_lo) ==
    /\ parts[1] = <<>> => parts_hi = 0            \* ^: requires ^::
    /\ parts[Len(parts)] = <<>> => parts_lo = 0   \* :$ requires ::$
    /\ 8 - (parts_hi + parts_lo) >= 1
    /\ \A i \in 1..parts_hi : parse_hextet(parts[i])
    /\ \A i \in (Len(parts) - parts_lo + 1)..Len(parts) : parse_hextet(parts[i])

\* parts with its one empty part at skip_index (0-based, neither the first nor
\* the last part): an empty first or last part belongs to the '::'.
hextets_skipping(parts, skip_index) ==
    hextets_around(parts,
                   IF parts[1] = <<>> THEN skip_index - 1 ELSE skip_index,
                   IF parts[Len(parts)] = <<>> THEN Len(parts) - skip_index - 2
                   ELSE Len(parts) - skip_index - 1)

\* The parts between the colons are those of an IPv6 address; skips are the
\* 0-based indexes of the empty parts other than the first and the last.
hextets(parts, skips) ==
    /\ Len(parts) >= 3
    /\ Len(parts) <= 9
    /\ Cardinality(skips) <= 1
    /\ IF skips # {}
       THEN hextets_skipping(parts, CHOOSE i \in skips : TRUE)
       ELSE Len(parts) = 8 /\ \A i \in 1..Len(parts) : parse_hextet(parts[i])

\* The 0-based indexes i in range(1, len(parts) - 1) with parts[i] empty.
empty_parts(parts) == { i \in 1..(Len(parts) - 2) : parts[i + 1] = <<>> }

\* ipaddress._BaseV6._ip_int_from_string does not raise.  No character of the
\* model is '.', so no part is an IPv4-style suffix.
ip_int_from_string(ip_str) ==
    ip_str # <<>> /\ hextets(Split(ip_str, ":"), empty_parts(Split(ip_str, ":")))

\* str.partition(c): the part before the first c (all of s without c), and
\* the part after it (empty without c).
Before(s, c) == IF Find(s, c) < 0 THEN s ELSE Take(s, Find(s, c))
After(s, c)  == IF Find(s, c) < 0 THEN <<>> ELSE Drop(s, Find(s, c) + 1)

\* ipaddress.IPv6Address(address) does not raise: the address before an
\* optional %scope_id is an IPv6 address, and the scope id is not empty and
\* holds no '%'.
IPv6Address(address) ==
    /\ "/" \notin Range(address)
    /\ "%" \in Range(address) =>
         (After(address, "%") # <<>> /\ "%" \notin Range(After(address, "%")))
    /\ ip_int_from_string(Before(address, "%"))

\* urllib.parse._check_bracketed_host(hostname): the message of the ValueError
\* it raises, <<>> when it returns.  No hostname of the model starts with 'v'
\* (IPvFuture) and none is an IPv4 address (no '.'), so ipaddress.ip_address
\* returns exactly for an IPv6 address.
check_bracketed_host(hostname) ==
    IF IPv6Address(hostname) THEN <<>>
    ELSE <<PyRepr(hostname), PyStr(" does not appear to be an IPv4 or IPv6 address")>>

\* The checks of urlsplit on the netloc: the message of the ValueError it
\* raises, <<>> when it raises none.  ValueError("Invalid IPv6 URL") for a
\* netloc with one of '[' and ']' and not the other; for a netloc with both,
\* the error of _check_bracketed_host on netloc.partition('[')[2].partition(']')[0].
check_netloc_brackets(netloc) ==
    IF ("[" \in Range(netloc)) # ("]" \in Range(netloc))
    THEN <<PyStr("Invalid IPv6 URL")>>
    ELSE IF "[" \in Range(netloc)
    THEN check_bracketed_host(Before(After(netloc, "["), "]"))
    ELSE <<>>

\* SplitResult(scheme, netloc, ...), or the ValueError in its place.
SplitResult(scheme, netloc) ==
    [msg |-> check_netloc_brackets(netloc), scheme |-> scheme, netloc |-> netloc]

\* urllib.parse.urlparse, as far as scheme and netloc: [msg, scheme, netloc],
\* where msg is the message of the ValueError that urlsplit raises, and <<>>
\* when it raises none.
urlparse(url0) ==
    LET i       == Find(url0, ":")
        hasSch  == /\ i > 0
                   /\ IsAsciiAlpha(url0[1])
                   /\ \A k \in 1..i : url0[k] \in scheme_chars
        scheme  == IF hasSch THEN LowerStr(Take(url0, i)) ELSE <<>>
        url     == IF hasSch THEN Drop(url0, i + 1) ELSE url0
        hasLoc  == Take(url, 2) = <<"/", "/">>
        netloc  == IF hasLoc THEN SplitNetloc(url).netloc ELSE <<>>
    IN  SplitResult(scheme, netloc)

\* Line 17, or the ValueError of line 16 that no handler catches:
\* [raised, msg, value].
scheme_and_netloc(parsed_url) ==
    [raised |-> parsed_url.msg # <<>>,
     msg    |-> parsed_url.msg,
     value  |-> parsed_url.msg = <<>> /\ parsed_url.scheme # <<>> /\ parsed_url.netloc # <<>>]

\* is_valid_url(input_str): [raised, msg, value].  The ValueError of urlparse
\* leaves the function; otherwise value is bool(scheme) and bool(netloc).
is_valid_url(input_str) ==
    LET decoded_url == unquote(input_str)
        parsed_url  == urlparse(decoded_url)
    IN  scheme_and_netloc(parsed_url)

(***************************************************************************)
(* The image paths the calls are tried on: a scheme part, a colon part,    *)
(* a slash part and a host part, each possibly empty, malformed or         *)
(* percent-encoded.                                                        *)
(***************************************************************************)
SchemeParts == { <<>>, <<"A", "3">>, <<"3">> }
ColonParts  == { <<>>, <<":">>, <<"%", "3", "a">>, <<"%", "3">> }
SlashParts  == { <<"/">>, <<"/", "/">> }
HostParts   == { <<>>, <<"a">>, <<"a", "/", "a">>, <<"%", "a", "3">> }

\* Hosts with square brackets: unbalanced, empty, no IP address, an IPv6
\* address.
BracketHosts == { <<"[">>, <<"]">>, <<"[", "]">>, <<"[", "a", "]">>,
                  <<"[", ":", ":", "a", "]">> }

ImagePaths ==
    { s \o c \o l \o h :
        s \in SchemeParts, c \in ColonParts, l \in SlashParts, h \in HostParts }
    \cup
    { s \o <<"/", "/">> \o h : s \in { <<>>, <<"A", "3", ":">> }, h \in BracketHosts }

(***************************************************************************)
(* JSON texts: sequences of tokens.                                        *)
(***************************************************************************)
Punct(c)  == [t |-> "punct", v |-> c]
Lit(w)    == [t |-> "lit",   v |-> w]
Num(n)    == [t |-> "num",   v |-> n]
StrTok(s) == [t |-> "str",   v |-> s]
Ws        == [t |-> "ws",    v |-> " "]
\* A lexeme that is no JSON token, such as the text of an HTML error page.
Junk(s)   == [t |-> "junk",  v |-> s]

NoParse == [ok |-> FALSE, value |-> PyNone, rest |-> <<>>]

Parsed(x, rest) == [ok |-> TRUE, value |-> x, rest |-> rest]

IsPunct(toks, c) == toks # <<>> /\ toks[1] = Punct(c)

RECURSIVE ParseValue(_)
RECURSIVE ParseElems(_, _)
RECURSIVE ParseMembers(_, _)

\* json.decoder's scan_once on a text without white space.
ParseValue(toks) ==
    IF toks = <<>> THEN NoParse
    ELSE LET h == toks[1]  rest == Tail(toks)
         IN  CASE h.t = "str" -> Parsed(PyStr(h.v), rest)
               [] h.t = "num" -> Parsed(PyInt(h.v), rest)
               [] h.t = "lit" ->
                    Parsed(CASE h.v = "true"  -> PyBool(TRUE)
                             [] h.v = "false" -> PyBool(FALSE)
                             [] OTHER         -> PyNone, rest)
               [] h = Punct("[") ->
                    IF IsPunct(rest, "]") THEN Parsed(PyList(<<>>), Tail(rest))
                    ELSE ParseElems(rest, <<>>)
               [] h = Punct("{") ->
                    IF IsPunct(rest, "}") THEN Parsed(PyDict(<<>>), Tail(rest))
                    ELSE ParseMembers(rest, <<>>)
               [] OTHER -> NoParse

\* JSONArray after '[': value (',' value)* ']'.
ParseElems(toks, acc) ==
    LET r == ParseValue(toks)
    IN  IF ~r.ok THEN NoParse
        ELSE IF IsPunct(r.rest, ",") THEN ParseElems(Tail(r.rest), Append(acc, r.value))
        ELSE IF IsPunct(r.rest, "]") THEN Parsed(PyList(Append(acc, r.value)), Tail(r.rest))
        ELSE NoParse

\* JSONObject after '{': string ':' value (',' string ':' value)* '}'.
ParseMembers(toks, acc) ==
    IF ~(Len(toks) >= 2 /\ toks[1].t = "str" /\ toks[2] = Punct(":")) THEN NoParse
    ELSE LET r == ParseValue(Drop(toks, 2))
         IN  IF ~r.ok THEN NoParse
             ELSE IF IsPunct(r.rest, ",")
                  THEN ParseMembers(Tail(r.rest), DictSet(acc, toks[1].v, r.value))
             ELSE IF IsPunct(r.rest, "}")
                  THEN Parsed(PyDict(DictSet(acc, toks[1].v, r.value)), Tail(r.rest))
             ELSE NoParse

\* json.loads(text): [ok, value]; ok is FALSE where json.loads raises
\* JSONDecodeError (no value, a malformed value, or extra data after it).
json_loads(text) ==
    LET toks == SelectSeq(text, LAMBDA tk : tk.t # "ws")
        r    == ParseValue(toks)
    IN  [ok |-> r.ok /\ r.rest = <<>>, value |-> IF r.ok /\ r.rest = <<>> THEN r.value ELSE PyNone]

RECURSIVE json_dumps(_)
RECURSIVE DumpsItems(_, _)
RECURSIVE DumpsMembers(_, _)

\* json.dumps(obj) with the default separators (', ', ': ').
json_dumps(obj) ==
    CASE obj.t = "None" -> <<Lit("null")>>
      [] obj.t = "bool" -> <<Lit(IF obj.v THEN "true" ELSE "false")>>
      [] obj.t = "int"  -> <<Num(obj.v)>>
      [] obj.t = "str"  -> <<StrTok(obj.v)>>
      [] obj.t = "list" -> <<Punct("[")>> \o DumpsItems(obj.v, 1) \o <<Punct("]")>>
      [] obj.t = "dict" -> <<Punct("{")>> \o DumpsMembers(obj.v, 1) \o <<Punct("}")>>

DumpsItems(s, i) ==
    IF i > Len(s) THEN <<>>
    ELSE (IF i > 1 THEN <<Punct(","), Ws>> ELSE <<>>)
         \o json_dumps(s[i]) \o DumpsItems(s, i + 1)

DumpsMembers(kv, i) ==
    IF i > Len(kv) THEN <<>>
    ELSE (IF i > 1 THEN <<Punct(","), Ws>> ELSE <<>>)
         \o <<StrTok(kv[i][1]), Punct(":"), Ws>>
         \o json_dumps(kv[i][2]) \o DumpsMembers(kv, i + 1)

(***************************************************************************)
(* The environment: what os and requests answer.                           *)
(***************************************************************************)
MaxContentLen == 1

\* The pieces of a bytes value: the one byte b; the UTF-8 encoding of the
\* lexeme tok; its UTF-16 (little-endian) encoding.
Byte(b)    == [t |-> "byte",   v |-> b]
Utf8(tok)  == [t |-> "utf-8",  v |-> tok]
Utf16(tok) == [t |-> "utf-16", v |-> tok]

\* text.encode("utf-8"), and text.encode("utf-16") with its byte order mark.
Utf8Bytes(text)  == [i \in 1..Len(text) |-> Utf8(text[i])]
Utf16Bytes(text) == <<Byte(255), Byte(254)>> \o [i \in 1..Len(text) |-> Utf16(text[i])]

RECURSIVE bytes_decode(_)
\* content.decode("utf-8"): [ok, text]; ok is FALSE where it raises
\* UnicodeDecodeError.  Of the raw bytes of the model, 0 is the character NUL
\* and 0xFE, 0xFF occur in no UTF-8 text; the UTF-16 encoding of a lexeme
\* (ASCII) is valid UTF-8 for the lexeme's characters with NUL after each.
bytes_decode(content) ==
    IF content = <<>> THEN [ok |-> TRUE, text |-> <<>>]
    ELSE LET h == content[1]
             r == bytes_decode(Tail(content))
         IN  CASE h.t = "utf-8"  -> [ok |-> r.ok, text |-> <<h.v>> \o r.text]
               [] h.t = "utf-16" -> [ok |-> r.ok, text |-> <<Junk("NUL-interleaved")>> \o r.text]
               [] h.t = "byte" /\ h.v < 128 -> [ok |-> r.ok, text |-> <<Junk("NUL")>> \o r.text]
               [] OTHER -> [ok |-> FALSE, text |-> <<>>]

Bytes == { Byte(0), Byte(255) }

RECURSIVE ByteStrings(_)
ByteStrings(n) ==
    IF n = 0 THEN { <<>> }
    ELSE ByteStrings(n - 1) \cup
         { Append(b, x) : b \in { c \in ByteStrings(n - 1) : Len(c) = n - 1 }, x \in Bytes }

Contents == ByteStrings(MaxContentLen)

\* os.path.isfile(path) and open(path, "rb").read(): no such file, a file that
\* cannot be opened, or a file with its content.
NoFile == [isfile |-> FALSE, readable |-> FALSE, content |-> <<>>]

\* The paths of the model that may name a local file; the last one is also a
\* URL with a scheme and a host.
LocalPaths == { <<"/", "a">>, <<"A", "3", ":", "/", "/", "a">> }

FileAnswers(path) ==
    {NoFile} \cup
    (IF path \in LocalPaths
     THEN {[isfile |-> TRUE, readable |-> FALSE, content |-> <<>>]} \cup
          {[isfile |-> TRUE, readable |-> TRUE, content |-> c] : c \in Contents}
     ELSE {})

\* What requests.get / requests.post answer: a Response (status_code, reason,
\* content: the bytes of the body, text: the body as requests decodes it with
\* the charset of the answer), or an exception (a timeout after 60 s, a
\* refused connection, a URL requests cannot send).
Response(status, reason, text, content) ==
    [raised |-> FALSE, status_code |-> status, reason |-> reason,
     text |-> text, content |-> content]

RequestFailed ==
    [raised |-> TRUE, status_code |-> 0, reason |-> "", text |-> <<>>, content |-> <<>>]

\* The answer of a request that was never sent.
NoAnswer ==
    [raised |-> FALSE, status_code |-> 0, reason |-> "", text |-> <<>>, content |-> <<>>]

ObjErrorMessage == <<Punct("{"), StrTok("errorMessage"), Punct(":"), StrTok("bad key"), Punct("}")>>
ObjStatusOk     == <<Punct("{"), StrTok("status"), Punct(":"), StrTok("ok"), Punct("}")>>

JsonObjectBodies ==
    { <<Punct("{"), Punct("}")>>,
      ObjErrorMessage,
      ObjStatusOk,
      <<Punct("{"), StrTok("code"), Punct(":"), Ws, Num(7), Punct(","), Ws,
        StrTok("errorMessage"), Punct(":"), Ws, StrTok("quota"), Punct("}"), Ws>>,
      <<Punct("{"), StrTok("errorMessage"), Punct(":"), StrTok("a"), Punct(","),
        StrTok("errorMessage"), Punct(":"), StrTok("b"), Punct("}")>> }

JsonOtherBodies ==
    { <<Punct("["), Punct("]")>>,
      <<Punct("["), StrTok("errorMessage"), Punct("]")>>,
      <<StrTok("errorMessage")>>,
      <<StrTok("bad key")>>,
      <<Num(5)>>,
      <<Lit("null")>> }

EmptyBody == <<>>

NonJsonBodies ==
    { <<Ws>>,
      <<Junk("<html>")>>,
      <<Punct("{"), StrTok("errorMessage"), Punct(":")>>,
      <<Punct("{"), Punct("}"), Punct("{"), Punct("}")>> }

Bodies == {EmptyBody} \cup NonJsonBodies \cup JsonObjectBodies \cup JsonOtherBodies

StatusLines == { <<200, "OK">>, <<201, "Created">>, <<401, "Unauthorized">> }

\* An answer whose body is the UTF-8 encoding of text.
Utf8Response(status, reason, text) == Response(status, reason, text, Utf8Bytes(text))

\* Answers whose body is no UTF-8 text: the single byte 0xFF, which requests
\* decodes to the replacement character, and a JSON text sent as UTF-16 with
\* that charset declared, which requests decodes to the JSON text.
OtherEncodings(status, reason) ==
    { Response(status, reason, <<Junk(RC)>>, <<Byte(255)>>),
      Response(status, reason, ObjStatusOk, Utf16Bytes(ObjStatusOk)),
      Response(status, reason, ObjErrorMessage, Utf16Bytes(ObjErrorMessage)) }

ApiAnswers ==
    {RequestFailed} \cup
    { Utf8Response(sl[1], sl[2], b) : sl \in StatusLines, b \in Bodies } \cup
    UNION { OtherEncodings(sl[1], sl[2]) : sl \in StatusLines }

\* An image is bytes only; its text is not looked at.
ImageAnswers ==
    {RequestFailed} \cup
    { Response(200, "OK", <<>>, c) : c \in Contents } \cup
    { Response(204, "No Content", <<>>, <<>>), Response(404, "Not Found", <<>>, <<Byte(0)>>) }

(***************************************************************************)
(* Outcomes of a call, requests, and f-strings.                            *)
(***************************************************************************)
Return(x) == [kind |-> "return", exc |-> "", msg |-> <<>>, value |-> x]

\* raise exc(msg).  msg is the sequence of the f-string's pieces; an exception
\* that a library raises has the message <<>>.
Raise(exc, msg) == [kind |-> "raise", exc |-> exc, msg |-> msg, value |-> PyNone]

\* Still running: no outcome yet.
Running == [kind |-> "none", exc |-> "", msg |-> <<>>, value |-> PyNone]

\* The text of a response inside an f-string.
PyText(toks) == [t |-> "text", v |-> toks]

NoFilePart == [name |-> "", filename |-> <<>>, content |-> <<>>]

Request(method, url, headers, data, files) ==
    [method |-> method, url |-> url, headers |-> headers, data |-> data,
     files |-> files, timeout |-> 60]

Chars_info        == <<"i", "n", "f", "o">>
Chars_recognition == <<"r", "e", "c", "o", "g", "n", "i", "t", "i", "o", "n">>

(***************************************************************************)
(* MmrApiClient.info                                                       *)
(***************************************************************************)
\* info(self, api_key) against a server that answers r: the call's requests,
\* what it prints, and its outcome.  The error branch prints r.text, the
\* success branch parses r.content.decode("utf-8").
info(self_server_url, api_key, r) ==
    LET headers == << <<"apikey", api_key>> >>
        req     == Request("GET", self_server_url \o Chars_info, headers, <<>>, NoFilePart)
        body    == bytes_decode(r.content)
        decoded == json_loads(body.text)
    IN  IF r.raised
        THEN [requests |-> <<req>>, stdout |-> <<>>,
              outcome |-> Raise("RequestException", <<>>)]
        ELSE IF r.status_code # 200
        THEN [requests |-> <<req>>,
              stdout |-> << <<PyInt(r.status_code), PyStr(" "), PyStr(r.reason),
                              PyStr(" - "), PyText(r.text)>> >>,
              outcome |-> Raise("ValueError",
                                <<PyStr("Server returned error code "), PyInt(r.status_code)>>)]
        ELSE [requests |-> <<req>>, stdout |-> <<>>,
              outcome |-> IF ~body.ok THEN Raise("UnicodeDecodeError", <<>>)
                          ELSE IF decoded.ok THEN Return(decoded.value)
                          ELSE Raise("JSONDecodeError", <<>>)]

(***************************************************************************)
(* MmrApiClient.recognition                                                *)
(***************************************************************************)
\* needle in container, for a str needle: "True", "False" or "TypeError".
\* The str values of the model contain "errorMessage" only when they equal it.
py_in(needle, container) ==
    CASE container.t = "dict" -> IF needle \in DictKeys(container) THEN "True" ELSE "False"
      [] container.t = "list" -> IF PyStr(needle) \in Range(container.v) THEN "True" ELSE "False"
      [] container.t = "str"  -> IF container.v = needle THEN "True" ELSE "False"
      [] OTHER                -> "TypeError"

\* Mutant of ReadImage: the URL test comes before the file test.
ReadImage_url_first(image_path, file, get_answer) ==
    LET get   == Request("GET", image_path, <<>>, <<>>, NoFilePart)
        valid == is_valid_url(image_path)
    IN  IF valid.raised
        THEN [requests |-> <<>>, source |-> "none", file_buffer |-> <<>>,
              outcome |-> Raise("ValueError", valid.msg)]
        ELSE IF valid.value
        THEN [requests |-> <<get>>, source |-> "RemoteUrl",
              file_buffer |-> get_answer.content,
              outcome |-> IF get_answer.raised THEN Raise("RequestException", <<>>)
                          ELSE IF get_answer.status_code = 200 THEN Running
                          ELSE Raise("ValueError", <<PyStr("Failed to read image.")>>)]
        ELSE IF file.isfile
        THEN [requests |-> <<>>, source |-> "LocalFile", file_buffer |-> file.content,
              outcome |-> IF file.readable THEN Running ELSE Raise("OSError", <<>>)]
        ELSE [requests |-> <<>>, source |-> "none", file_buffer |-> <<>>,
              outcome |-> Raise("ValueError",
                                <<PyStr("Input is neither a valid file path nor a URL.")>>)]

\* Mutant of ReadImage: every answer to the image GET yields its body as the
\* image, whatever its status (the test of status_code is missing).
ReadImage_any_status(image_path, file, get_answer) ==
    LET get   == Request("GET", image_path, <<>>, <<>>, NoFilePart)
        valid == is_valid_url(image_path)
    IN  IF file.isfile
        THEN [requests |-> <<>>, source |-> "LocalFile", file_buffer |-> file.content,
              outcome |-> IF file.readable THEN Running ELSE Raise("OSError", <<>>)]
        ELSE IF valid.raised
        THEN [requests |-> <<>>, source |-> "none", file_buffer |-> <<>>,
              outcome |-> Raise("ValueError", valid.msg)]
        ELSE IF valid.value
        THEN [requests |-> <<get>>, source |-> "RemoteUrl",
              file_buffer |-> get_answer.content,
              outcome |-> IF get_answer.raised THEN Raise("RequestException", <<>>)
                          ELSE Running]
        ELSE [requests |-> <<>>, source |-> "none", file_buffer |-> <<>>,
              outcome |-> Raise("ValueError",
                                <<PyStr("Input is neither a valid file path nor a URL.")>>)]

\* Lines 63-78: the image bytes.  [requests, outcome, file_buffer, source]:
\* outcome is Running when file_buffer was obtained.
ReadImage(image_path, file, get_answer) ==
    LET get   == Request("GET", image_path, <<>>, <<>>, NoFilePart)
        valid == is_valid_url(image_path)
    IN  IF file.isfile
        THEN [requests |-> <<>>, source |-> "LocalFile", file_buffer |-> file.content,
              outcome |-> IF file.readable THEN Running ELSE Raise("OSError", <<>>)]
        ELSE IF valid.raised
        THEN [requests |-> <<>>, source |-> "none", file_buffer |-> <<>>,
              outcome |-> Raise("ValueError", valid.msg)]
        ELSE IF valid.value
        THEN [requests |-> <<get>>, source |-> "RemoteUrl",
              file_buffer |-> get_answer.content,
              outcome |-> IF get_answer.raised THEN Raise("RequestException", <<>>)
                          ELSE IF get_answer.status_code = 200 THEN Running
                          ELSE Raise("ValueError", <<PyStr("Failed to read image.")>>)]
        ELSE [requests |-> <<>>, source |-> "none", file_buffer |-> <<>>,
              outcome |-> Raise("ValueError",
                                <<PyStr("Input is neither a valid file path nor a URL.")>>)]

\* Mutant of RecognitionRequest: the file part is named after the last
\* component of the path (os.path.basename) instead of the whole string.
RecognitionRequest_basename(self_server_url, api_key, image_path, file_buffer, save_image, save_plate_text, tasks, ocr_module_id) ==
    LET slashes  == { i \in 1..Len(image_path) : image_path[i] = "/" }
        lastSl   == IF slashes = {} THEN 0 ELSE CHOOSE i \in slashes : \A j \in slashes : j <= i
        files    == [name |-> "file", filename |-> Drop(image_path, lastSl),
                     content |-> file_buffer]
        request  == PyDict(<< <<"saveImage", save_image>>,
                              <<"savePlateText", save_plate_text>>,
                              <<"tasks", tasks>>,
                              <<"ocrModuleId", ocr_module_id>> >>)
    IN  Request("POST", self_server_url \o Chars_recognition, << <<"apiKey", api_key>> >>,
                << <<"request", json_dumps(request)>> >>, files)

\* Lines 80-96: the recognition POST.
RecognitionRequest(self_server_url, api_key, image_path, file_buffer, save_image, save_plate_text, tasks, ocr_module_id) ==
    LET files   == [name |-> "file", filename |-> image_path, content |-> file_buffer]
        headers == << <<"apiKey", api_key>> >>
        request == PyDict(<< <<"saveImage", save_image>>,
                             <<"savePlateText", save_plate_text>>,
                             <<"tasks", tasks>>,
                             <<"ocrModuleId", ocr_module_id>> >>)
        payload == << <<"request", json_dumps(request)>> >>
    IN  Request("POST", self_server_url \o Chars_recognition, headers, payload, files)

\* Mutant of RecognitionOutcome: the body of an error answer is not looked at.
RecognitionOutcome_reason_only(r) ==
    LET body    == bytes_decode(r.content)
        decoded == json_loads(body.text)
    IN  IF r.raised THEN Raise("RequestException", <<>>)
        ELSE IF r.status_code # 200
        THEN Raise("ValueError", <<PyStr("Server returned error code "),
                                   PyInt(r.status_code), PyStr(" : "), PyStr(r.reason)>>)
        ELSE IF ~body.ok THEN Raise("UnicodeDecodeError", <<>>)
        ELSE IF decoded.ok THEN Return(decoded.value)
        ELSE Raise("JSONDecodeError", <<>>)

\* Lines 98-107: the outcome of the call from the answer r to the POST.  The
\* error branch reads r.text, the success branch r.content.decode("utf-8").
RecognitionOutcome(r) ==
    LET returned_json == json_loads(r.text)
        has           == py_in("errorMessage", returned_json.value)
        body          == bytes_decode(r.content)
        decoded       == json_loads(body.text)
    IN  IF r.raised THEN Raise("RequestException", <<>>)
        ELSE IF r.status_code # 200
        THEN IF r.text = <<>>
             THEN Raise("ValueError", <<PyStr("Server returned error code "),
                                        PyInt(r.status_code), PyStr(" : "), PyStr(r.reason)>>)
             ELSE IF ~returned_json.ok THEN Raise("JSONDecodeError", <<>>)
             ELSE IF has = "TypeError" THEN Raise("TypeError", <<>>)
             ELSE IF has = "False"
             THEN Raise("ValueError", <<PyStr("Server returned error code "),
                                        PyInt(r.status_code), PyStr(" : "), PyStr(r.reason)>>)
             ELSE IF returned_json.value.t # "dict" THEN Raise("TypeError", <<>>)
             ELSE Raise("ValueError", <<PyStr("Server returned error code "),
                                        PyInt(r.status_code), PyStr(" : "),
                                        DictGet(returned_json.value, "errorMessage")>>)
        ELSE IF ~body.ok THEN Raise("UnicodeDecodeError", <<>>)
        ELSE IF decoded.ok THEN Return(decoded.value)
        ELSE Raise("JSONDecodeError", <<>>)

\* Mutant of TasksAfterCall: the call consumes the list it was given
\* (tasks.pop(0) while building the request).
TasksAfterCall_pop(tasks) ==
    IF tasks.t = "list" /\ tasks.v # <<>> THEN PyList(Tail(tasks.v)) ELSE tasks

\* The list bound to `tasks` when the call ends: no statement of recognition
\* changes it.
TasksAfterCall(tasks) == tasks

\* recognition(self, api_key, image_path, save_image, save_plate_text, tasks,
\* ocr_module_id), the defaults already bound, in an environment that answers
\* file, get_answer and post_answer.
recognition(self_server_url, api_key, image_path, save_image, save_plate_text, tasks, ocr_module_id, file, get_answer, post_answer) ==
    LET img  == ReadImage(image_path, file, get_answer)
        post == RecognitionRequest(self_server_url, api_key, image_path, img.file_buffer,
                                   save_image, save_plate_text, tasks, ocr_module_id)
    IN  IF img.outcome.kind # "none"
        THEN [requests |-> img.requests, stdout |-> <<>>, source |-> img.source,
              outcome |-> img.outcome, tasks |-> TasksAfterCall(tasks)]
        ELSE [requests |-> Append(img.requests, post), stdout |-> <<>>,
              source |-> img.source, outcome |-> RecognitionOutcome(post_answer),
              tasks |-> TasksAfterCall(tasks)]

(***************************************************************************)
(* Arguments of recognition.  A parameter with a default is either omitted *)
(* by the caller or given a value.                                         *)
(***************************************************************************)
Omitted  == [given |-> FALSE, value |-> PyNone]
Given(x) == [given |-> TRUE, value |-> x]

\* Mutant of Bind: the parameter defaults are None (def f(tasks=None)) and
\* nothing replaces them.
Bind_none_default(arg, default) == IF arg.given THEN arg.value ELSE PyNone

\* Python binds the default to a parameter the caller omits.
Bind(arg, default) == IF arg.given THEN arg.value ELSE default

\* Lines 48-51: the defaults, as evaluated once when the class body runs.
default_save_image      == PyBool(FALSE)
default_save_plate_text == PyBool(TRUE)
default_tasks_literal   == PyList(<<PyStr("DETECTION"), PyStr("OCR"), PyStr("MMR")>>)
default_ocr_module_id   == PyInt(801)

NoArgs == [save_image |-> Omitted, save_plate_text |-> Omitted,
           tasks |-> Omitted, ocr_module_id |-> Omitted]

MaxTasksLen == 1

TaskNames == {"OCR", "MMR"}

RECURSIVE TaskLists(_)
TaskLists(n) ==
    IF n = 0 THEN { <<>> }
    ELSE TaskLists(n - 1) \cup
         { Append(l, PyStr(x)) : l \in { m \in TaskLists(n - 1) : Len(m) = n - 1 },
                                 x \in TaskNames }

AllArgs ==
    [save_image      : {Omitted, Given(PyBool(TRUE))},
     save_plate_text : {Omitted, Given(PyNone)},
     tasks           : {Omitted} \cup { Given(PyList(l)) : l \in TaskLists(MaxTasksLen) },
     ocr_module_id   : {Omitted, Given(PyInt(0)), Given(PyInt(5)), Given(PyNone)}]

ApiKeys == {"k1", "k2"}

ServerUrls == { <<"h", ":", "/", "/", "s", "/">> }

PlainFile == [isfile |-> TRUE, readable |-> TRUE, content |-> <<Byte(0)>>]

OkAnswer == Utf8Response(200, "OK", ObjStatusOk)

\* The inputs of a call of recognition and the answers it consumes: a GET
\* answer only where the call sends the image GET, a POST answer only where it
\* reaches the POST.
InputsFor(keys, paths, files, argSets, posts) ==
    UNION { UNION { UNION {
        { [api_key |-> k, image_path |-> p, args |-> a, file |-> f,
           get_answer |-> g, post_answer |-> q] :
            k \in keys, a \in argSets,
            q \in (IF ReadImage(p, f, g).outcome.kind = "none" THEN posts ELSE {NoAnswer}) } :
        g \in (IF ReadImage(p, f, NoAnswer).requests = <<>> THEN {NoAnswer}
               ELSE ImageAnswers) } :
        f \in FileAnswers(p) \cap files } :
        p \in paths }

AllFiles == UNION { FileAnswers(p) : p \in ImagePaths }

\* Every image path with every file and image answer; every combination of
\* arguments; every answer of the server to the POST.
RecognitionInputs ==
    InputsFor({"k1"}, ImagePaths, AllFiles, {NoArgs}, {OkAnswer})
    \cup InputsFor({"k2"}, {<<"/", "a">>}, {PlainFile}, AllArgs, {OkAnswer})
    \cup InputsFor({"k1"}, {<<"/", "a">>}, {PlainFile}, {NoArgs}, ApiAnswers)

InfoBodies == { EmptyBody, <<Junk("<html>")>>, ObjStatusOk, ObjErrorMessage }

InfoAnswers ==
    {RequestFailed} \cup
    { Utf8Response(sl[1], sl[2], b) : sl \in StatusLines, b \in InfoBodies } \cup
    { Response(200, "OK", <<Junk(RC)>>, <<Byte(255)>>),
      Response(200, "OK", ObjStatusOk, Utf16Bytes(ObjStatusOk)),
      Response(401, "Unauthorized", ObjStatusOk, Utf16Bytes(ObjStatusOk)) }

(***************************************************************************)
(* The state machine: one client, called again and again.                  *)
(***************************************************************************)
NoCall ==
    [op |-> "none", api_key |-> "", image_path |-> <<>>, args |-> NoArgs,
     file |-> NoFile, get_answer |-> NoAnswer, post_answer |-> NoAnswer,
     requests |-> <<>>, stdout |-> <<>>, outcome |-> Running, source |-> "none"]

\* What prev keeps of a call.
NoPrev == [op |-> "none", api_key |-> "", get_answer |-> NoAnswer, outcome |-> Running]

Summary(call) ==
    [op |-> call.op, api_key |-> call.api_key, get_answer |-> call.get_answer,
     outcome |-> call.outcome]

\* __init__(self, server_url), and the def statement of recognition.
Init ==
    /\ server_url \in ServerUrls
    /\ default_tasks = default_tasks_literal
    /\ last = NoCall
    /\ prev = NoPrev

\* Mutant of Info: the call keeps the endpoint it built in self.server_url.
Info_keeps_endpoint ==
    \E api_key \in ApiKeys, r \in InfoAnswers :
        LET c == info(server_url, api_key, r)
        IN  /\ last' = [NoCall EXCEPT !.op = "info", !.api_key = api_key,
                                      !.get_answer = r, !.requests = c.requests,
                                      !.stdout = c.stdout, !.outcome = c.outcome]
            /\ prev' = IF last.op = "info" THEN Summary(last) ELSE [NoPrev EXCEPT !.op = last.op]
            /\ server_url' = IF Len(server_url) < 12 THEN server_url \o Chars_info
                              ELSE server_url
            /\ UNCHANGED default_tasks

\* client.info(api_key)
Info ==
    \E api_key \in ApiKeys, r \in InfoAnswers :
        LET c == info(server_url, api_key, r)
        IN  /\ last' = [NoCall EXCEPT !.op = "info", !.api_key = api_key,
                                      !.get_answer = r, !.requests = c.requests,
                                      !.stdout = c.stdout, !.outcome = c.outcome]
            /\ prev' = IF last.op = "info" THEN Summary(last) ELSE [NoPrev EXCEPT !.op = last.op]
            /\ UNCHANGED <<server_url, default_tasks>>

\* client.recognition(api_key, image_path, ...)
Recognition ==
    \E inp \in RecognitionInputs :
        LET tasks == Bind(inp.args.tasks, default_tasks)
            c == recognition(server_url, inp.api_key, inp.image_path,
                             Bind(inp.args.save_image, default_save_image),
                             Bind(inp.args.save_plate_text, default_save_plate_text),
                             tasks,
                             Bind(inp.args.ocr_module_id, default_ocr_module_id),
                             inp.file, inp.get_answer, inp.post_answer)
        IN  /\ last' = [op |-> "recognition", api_key |-> inp.api_key,
                        image_path |-> inp.image_path, args |-> inp.args,
                        file |-> inp.file, get_answer |-> inp.get_answer,
                        post_answer |-> inp.post_answer, requests |-> c.requests,
                        stdout |-> c.stdout, outcome |-> c.outcome, source |-> c.source]
            \* the default list is the very object the call worked on
            /\ default_tasks' = IF inp.args.tasks.given THEN default_tasks ELSE c.tasks
            /\ prev' = [NoPrev EXCEPT !.op = last.op]
            /\ UNCHANGED server_url

Next == Info \/ Recognition

Spec == Init /\ [][Next]_vars
(***************************************************************************)
(* Vocabulary of the properties.                                           *)
(***************************************************************************)
IsInfo        == last.op = "info"
IsRecognition == last.op = "recognition"

PostsOf(call) == SelectSeq(call.requests, LAMBDA q : q.method = "POST")
GetsOf(call)  == SelectSeq(call.requests, LAMBDA q : q.method = "GET")

\* The last call was a recognition that sent the recognition POST.
Posted == IsRecognition /\ PostsOf(last) # <<>>

ThePost == PostsOf(last)[1]

\* The `request` form field of the POST, decoded as the server decodes it.
RequestField == json_loads(ThePost.data[1][2])

\* The POST was answered with a status other than 200.
PostRefused ==
    Posted /\ ~last.post_answer.raised /\ last.post_answer.status_code # 200

\* The image source is no existing local file and no URL with scheme and host.
InvalidSource ==
    IsRecognition /\ ~last.file.isfile /\ ~is_valid_url(last.image_path).value

\* The image source is no existing local file and is a URL with scheme and host.
RemoteSource ==
    IsRecognition /\ ~last.file.isfile /\ is_valid_url(last.image_path).value

InvalidInputError ==
    Raise("ValueError", <<PyStr("Input is neither a valid file path nor a URL.")>>)

ImageReadError == Raise("ValueError", <<PyStr("Failed to read image.")>>)

ServerError(status, detail) ==
    Raise("ValueError", <<PyStr("Server returned error code "), PyInt(status),
                          PyStr(" : "), detail>>)

NonEmptyList(x)    == x.t = "list" /\ Len(x.v) > 0
PositiveInteger(x) == x.t = "int" /\ x.v > 0

(***************************************************************************)
(* C1.  An image source that is neither an existing local file nor a URL   *)
(* with scheme and host makes recognition fail with the error "Input is    *)
(* neither a valid file path nor a URL." and no request is sent.           *)
(* The code does not do this for every such source: where urlparse itself  *)
(* raises (square brackets that do not pair, or that hold no IP address),  *)
(* the ValueError of urlparse leaves the call instead.                     *)
(***************************************************************************)
C1_InvalidInputFails ==
    InvalidSource => last.outcome = InvalidInputError /\ last.requests = <<>>

(***************************************************************************)
(* C2.  A non-200 answer to the POST with an empty or non-JSON body makes  *)
(* recognition fail with the server error that carries the status code and *)
(* the reason phrase.  The code raises JSONDecodeError on a non-empty body *)
(* that is no JSON.                                                        *)
(***************************************************************************)
C2_ReasonPhraseOnBadBody ==
    (PostRefused /\ (last.post_answer.text = <<>> \/ ~json_loads(last.post_answer.text).ok))
    => last.outcome = ServerError(last.post_answer.status_code,
                                  PyStr(last.post_answer.reason))

(***************************************************************************)
(* C3.  A non-200 answer to the POST whose body is a JSON object with an   *)
(* errorMessage field of value m makes recognition fail with the server    *)
(* error that carries the status code and m, not the reason phrase.        *)
(***************************************************************************)
C3_ErrorMessageIsDetail ==
    /\ \A body \in JsonObjectBodies :
         (PostRefused /\ last.post_answer.text = body
            /\ "errorMessage" \in DictKeys(json_loads(body).value))
         => /\ last.outcome = ServerError(last.post_answer.status_code,
                                          DictGet(json_loads(body).value, "errorMessage"))
            /\ last.outcome.msg[4] # PyStr(last.post_answer.reason)
    /\ (PostRefused /\ last.post_answer.text = ObjErrorMessage)
         => last.outcome.msg[4] = PyStr("bad key")

C3_Witness ==
    /\ PostRefused
    /\ last.post_answer.text = ObjErrorMessage
    /\ last.post_answer.status_code = 401
    /\ last.outcome = ServerError(401, PyStr("bad key"))

(***************************************************************************)
(* C4.  A remote image source whose GET is answered with a status other    *)
(* than 200 makes recognition fail with "Failed to read image.": the POST  *)
(* is not sent and nothing is returned.                                    *)
(***************************************************************************)
C4_ImageReadError ==
    (RemoteSource /\ ~last.get_answer.raised /\ last.get_answer.status_code # 200)
    => /\ last.outcome = ImageReadError
       /\ PostsOf(last) = <<>>
       /\ last.outcome.kind # "return"

C4_Witness ==
    /\ RemoteSource
    /\ last.get_answer.status_code = 204
    /\ Len(last.requests) = 1
    /\ last.outcome = ImageReadError

(***************************************************************************)
(* C5.  The `request` field of every POST is a JSON object with exactly    *)
(* the keys saveImage, savePlateText, tasks, ocrModuleId, each with the    *)
(* caller's value, or with false, true, ["DETECTION","OCR","MMR"], 801     *)
(* where the caller omitted it, whatever the calls before it were.         *)
(***************************************************************************)
C5_RequestField ==
    Posted =>
        /\ RequestField.ok
        /\ RequestField.value.t = "dict"
        /\ Len(RequestField.value.v) = 4
        /\ DictKeys(RequestField.value) = {"saveImage", "savePlateText", "tasks", "ocrModuleId"}
        /\ DictGet(RequestField.value, "saveImage")
             = Bind(last.args.save_image, PyBool(FALSE))
        /\ DictGet(RequestField.value, "savePlateText")
             = Bind(last.args.save_plate_text, PyBool(TRUE))
        /\ DictGet(RequestField.value, "tasks")
             = Bind(last.args.tasks, PyList(<<PyStr("DETECTION"), PyStr("OCR"), PyStr("MMR")>>))
        /\ DictGet(RequestField.value, "ocrModuleId")
             = Bind(last.args.ocr_module_id, PyInt(801))

\* A call that omits every option, after an earlier recognition call.
C5_Witness ==
    /\ Posted
    /\ prev.op = "recognition"
    /\ last.args = NoArgs
    /\ ThePost.data[1][2] =
         <<Punct("{"), StrTok("saveImage"), Punct(":"), Ws, Lit("false"), Punct(","), Ws,
           StrTok("savePlateText"), Punct(":"), Ws, Lit("true"), Punct(","), Ws,
           StrTok("tasks"), Punct(":"), Ws, Punct("["), StrTok("DETECTION"), Punct(","), Ws,
           StrTok("OCR"), Punct(","), Ws, StrTok("MMR"), Punct("]"), Punct(","), Ws,
           StrTok("ocrModuleId"), Punct(":"), Ws, Num(801), Punct("}")>>

(***************************************************************************)
(* C6.  A non-200 answer to the info GET makes info fail with an error     *)
(* that carries the status code and the reason phrase, and a 200 answer    *)
(* with the body {"status":"ok"} makes it return that mapping.  The error  *)
(* of the code carries the status code only: the reason phrase goes to     *)
(* print and is not part of what the caller receives.                      *)
(***************************************************************************)
C6_InfoErrorSurfacesStatusAndReason ==
    /\ (IsInfo /\ ~last.get_answer.raised /\ last.get_answer.status_code # 200)
         => /\ last.outcome.kind = "raise"
            /\ PyInt(last.get_answer.status_code) \in Range(last.outcome.msg)
            /\ PyStr(last.get_answer.reason) \in Range(last.outcome.msg)
    /\ (IsInfo /\ last.get_answer.status_code = 200
           /\ last.get_answer.content = Utf8Bytes(ObjStatusOk))
         => last.outcome = Return(PyDict(<< <<"status", PyStr("ok")>> >>))

(***************************************************************************)
(* C7.  The part `file` of every POST has as content the bytes of the      *)
(* chosen source (the local file, or the body of the image GET's 200       *)
(* answer) and as filename the image source string of the caller.          *)
(***************************************************************************)
C7_FilePart ==
    Posted =>
        /\ ThePost.files.name = "file"
        /\ ThePost.files.filename = last.image_path
        /\ ThePost.files.content =
             IF last.file.isfile THEN last.file.content ELSE last.get_answer.content
        /\ last.file.isfile \/ last.get_answer.status_code = 200

C7_Witness ==
    /\ Posted
    /\ ~last.file.isfile
    /\ last.get_answer.content = <<Byte(255)>>
    /\ ThePost.files.content = <<Byte(255)>>

(***************************************************************************)
(* C8.  No call changes the client: every step leaves server_url (and the *)
(* default list of tasks) as it was, and an info call that follows an info *)
(* call with the same key and the same answer of the server has the same   *)
(* outcome.                                                                *)
(***************************************************************************)
C8_Step ==
    /\ server_url' = server_url
    /\ default_tasks' = default_tasks
    /\ (last.op = "info" /\ last'.op = "info" /\ last'.api_key = last.api_key
          /\ last'.get_answer = last.get_answer)
         => last'.outcome = last.outcome /\ last'.requests = last.requests

C8_NoClientStateChange == [][C8_Step]_vars

C8_Witness ==
    /\ IsInfo
    /\ prev.op = "info"
    /\ prev.api_key = last.api_key
    /\ prev.get_answer = last.get_answer
    /\ prev.outcome = last.outcome
    /\ last.outcome.kind = "return"
    /\ server_url \in ServerUrls

(***************************************************************************)
(* C9.  info sends exactly one GET, to server_url + "info".  recognition   *)
(* sends at most an image GET, only for a source that is no existing local *)
(* file and is a URL with scheme and host, and after it at most one POST,  *)
(* to server_url + "recognition"; no request is sent twice.                *)
(***************************************************************************)
C9_RequestOrder ==
    /\ IsInfo =>
         /\ Len(last.requests) = 1
         /\ last.requests[1].method = "GET"
         /\ last.requests[1].url = server_url \o <<"i", "n", "f", "o">>
    /\ IsRecognition =>
         /\ Len(last.requests) <= 2
         /\ Len(GetsOf(last)) <= 1
         /\ Len(PostsOf(last)) <= 1
         /\ GetsOf(last) # <<>> =>
              /\ last.requests[1].method = "GET"
              /\ last.requests[1].url = last.image_path
              /\ RemoteSource
         /\ last.file.isfile => GetsOf(last) = <<>>
         /\ PostsOf(last) # <<>> =>
              /\ last.requests[Len(last.requests)].method = "POST"
              /\ ThePost.url = server_url \o <<"r", "e", "c", "o", "g", "n", "i", "t", "i", "o", "n">>
         /\ (Len(last.requests) = 2 => last.requests[1] # last.requests[2])
         /\ (last.outcome.kind = "raise" /\ GetsOf(last) # <<>> /\ PostsOf(last) = <<>>)
              => Len(last.requests) = 1

\* A call on an existing local file whose name is also a URL with scheme and
\* host: the file is read and no image GET is sent.
C9_Witness ==
    /\ IsRecognition
    /\ last.file.isfile
    /\ is_valid_url(last.image_path).value
    /\ Len(last.requests) = 1
    /\ last.requests[1].method = "POST"

(***************************************************************************)
(* C10.  As claimed: in every POST the tasks value is non-empty, the       *)
(* ocrModuleId value is a positive integer, and exactly one of LocalFile   *)
(* and RemoteUrl was chosen.  The code forwards an empty tasks list, a     *)
(* non-positive ocr_module_id and None as the caller gave them.            *)
(***************************************************************************)
C10_Original ==
    Posted =>
        /\ NonEmptyList(DictGet(RequestField.value, "tasks"))
        /\ PositiveInteger(DictGet(RequestField.value, "ocrModuleId"))
        /\ last.source \in {"LocalFile", "RemoteUrl"}

(***************************************************************************)
(* C10, amended.  In every POST exactly one of LocalFile and RemoteUrl was *)
(* chosen; the tasks value is non-empty where the caller omitted tasks or  *)
(* gave a non-empty list, and the ocrModuleId value is a positive integer  *)
(* where the caller omitted ocr_module_id or gave a positive integer.      *)
(***************************************************************************)
C10_SourceChosenValuesForwarded ==
    Posted =>
        /\ last.source \in {"LocalFile", "RemoteUrl"}
        /\ (last.source = "LocalFile") = last.file.isfile
        /\ (last.source = "RemoteUrl") = (GetsOf(last) # <<>>)
        /\ (~last.args.tasks.given \/ NonEmptyList(last.args.tasks.value))
             => NonEmptyList(DictGet(RequestField.value, "tasks"))
        /\ (~last.args.ocr_module_id.given \/ PositiveInteger(last.args.ocr_module_id.value))
             => PositiveInteger(DictGet(RequestField.value, "ocrModuleId"))

C10_Witness ==
    /\ Posted
    /\ last.args.tasks = Given(PyList(<<>>))
    /\ last.args.ocr_module_id = Given(PyInt(5))
    /\ DictGet(RequestField.value, "tasks") = PyList(<<>>)
    /\ DictGet(RequestField.value, "ocrModuleId") = PyInt(5)

=============================================================================
